---------------------------- MODULE Spec2Model ----------------------------
(* Model of src/src/utils/publications.ts: the LaTeX text normalizer       *)
(* (decodeLatex, clean), the BibTeX entry parser (parseBibTex) and the     *)
(* cached fetch orchestrator (fetchPublications).                          *)
(*                                                                         *)
(* A JavaScript string is a sequence of one-character strings; a token     *)
(* such as "ccedil" stands for one non-ASCII character.                    *)
EXTENDS Integers, Sequences, FiniteSets, TLC

VARIABLES
    \* fetchPublications: the module-level cache, the clock and the invocations
    clock,      \* Date.now()
    cache,      \* let cache: { data, timestamp } | null
    inflight,   \* invocations whose fetch(DBLP_BIB_URL) has not settled
    pc,         \* per invocation: "idle", "awaiting", "text", "done"
    now,        \* per invocation: const now = Date.now(), 0 once it completed
    body,       \* per invocation: the document response.text() resolved with
    ret,        \* per invocation: how the call completed and with what
    \* parseBibTex applied to one document
    text,       \* the argument of parseBibTex
    entries,    \* its return value
    pstage,     \* "input", "parsed"
    \* decodeLatex applied to one string
    val,        \* the argument of decodeLatex
    decoded,    \* its return value
    dstage      \* "input", "decoded"

vars == <<clock, cache, inflight, pc, now, body, ret,
          text, entries, pstage, val, decoded, dstage>>

fetchVars == <<clock, cache, inflight, pc, now, body, ret>>
parseVars == <<text, entries, pstage>>
decodeVars == <<val, decoded, dstage>>

-----------------------------------------------------------------------------
(* Strings                                                                 *)

UpperCase == <<"A","B","C","D","E","F","G","H","I","J","K","L","M",
               "N","O","P","Q","R","S","T","U","V","W","X","Y","Z">>
LowerCase == <<"a","b","c","d","e","f","g","h","i","j","k","l","m",
               "n","o","p","q","r","s","t","u","v","w","x","y","z">>

Range(s) == { s[i] : i \in DOMAIN s }

\* [a-zA-Z]
IsLetter(ch) == ch \in Range(UpperCase) \cup Range(LowerCase)

\* \s
IsSpace(ch) == ch \in {" ", "\t", "\n", "\r", "\f"}

toLowerCaseChar(ch) ==
    IF ch \in Range(UpperCase)
    THEN LowerCase[CHOOSE i \in DOMAIN UpperCase : UpperCase[i] = ch]
    ELSE IF ch = "Ccedil" THEN "ccedil" ELSE ch

\* String.prototype.toLowerCase
toLowerCase(s) == [i \in DOMAIN s |-> toLowerCaseChar(s[i])]

\* String.prototype.includes
includes(s, t) ==
    \E i \in 0..(Len(s) - Len(t)) : SubSeq(s, i + 1, i + Len(t)) = t

\* String.prototype.startsWith
startsWith(s, t) == Len(s) >= Len(t) /\ SubSeq(s, 1, Len(t)) = t

Drop(s, n) == SubSeq(s, n + 1, Len(s))

RECURSIVE TrimStart(_)
TrimStart(s) ==
    IF s # <<>> /\ IsSpace(Head(s)) THEN TrimStart(Tail(s)) ELSE s

RECURSIVE TrimEnd(_)
TrimEnd(s) ==
    IF s # <<>> /\ IsSpace(s[Len(s)])
    THEN TrimEnd(SubSeq(s, 1, Len(s) - 1)) ELSE s

\* String.prototype.trim
trim(s) == TrimEnd(TrimStart(s))

-----------------------------------------------------------------------------
(* decodeLatex: one regular-expression replacement per operator, each a    *)
(* left-to-right scan replacing non-overlapping leftmost matches.          *)

\* the length of the longest prefix of s made of characters other than
\* "{", "}" and "\": [^{}\\]+
RECURSIVE PlainRun(_)
PlainRun(s) ==
    IF s # <<>> /\ Head(s) \notin {"{", "}", "\\"}
    THEN 1 + PlainRun(Tail(s)) ELSE 0

\* str.replace(/\{([^{}\\]+)\}/g, '$1')
RECURSIVE StripBraces(_)
StripBraces(s) ==
    IF s = <<>> THEN <<>>
    ELSE LET n == PlainRun(Tail(s)) IN
         IF Head(s) = "{" /\ n >= 1 /\ Len(s) >= n + 2 /\ s[n + 2] = "}"
         THEN SubSeq(s, 2, n + 1) \o StripBraces(Drop(s, n + 2))
         ELSE <<Head(s)>> \o StripBraces(Tail(s))

\* the accent class of the regular expression: acute, umlaut (the token
\* "dquote" is the double quote, "bquote" the back quote), grave, circumflex, tilde, macron, dot
AccentChars == {"'", "dquote", "bquote", "^", "~", "=", "."}

\* the map of the accent callback: the combining mark of an accent
AccentMark(accent) ==
    CASE accent = "'"  -> "+acute"
      [] accent = "dquote" -> "+umlaut"
      [] accent = "bquote" -> "+grave"
      [] accent = "^"  -> "+circumflex"
      [] accent = "~"  -> "+tilde"
      [] accent = "="  -> "+macron"
      [] accent = "."  -> "+dot"
      [] OTHER         -> ""

\* (char + (map[accent] || "")).normalize('NFC'): one composed character
Compose(ch, accent) == ch \o AccentMark(accent)

\* str.replace(/\\(ACCENT)(?:\{([a-zA-Z])\}|([a-zA-Z]))/g, callback)
RECURSIVE DecodeAccents(_)
DecodeAccents(s) ==
    IF s = <<>> THEN <<>>
    ELSE IF Len(s) >= 5 /\ s[1] = "\\" /\ s[2] \in AccentChars /\ s[3] = "{"
            /\ IsLetter(s[4]) /\ s[5] = "}"
         THEN <<Compose(s[4], s[2])>> \o DecodeAccents(Drop(s, 5))
    ELSE IF Len(s) >= 3 /\ s[1] = "\\" /\ s[2] \in AccentChars /\ IsLetter(s[3])
         THEN <<Compose(s[3], s[2])>> \o DecodeAccents(Drop(s, 3))
    ELSE <<Head(s)>> \o DecodeAccents(Tail(s))

\* the length of the longest prefix of s made of whitespace: \s+
RECURSIVE SpaceRun(_)
SpaceRun(s) ==
    IF s # <<>> /\ IsSpace(Head(s)) THEN 1 + SpaceRun(Tail(s)) ELSE 0

\* the cedilla callback: (match, char1, char2) => ...
CedillaCallback(match, ch) ==
    IF toLowerCaseChar(ch) = "c"
    THEN (IF ch = "c" THEN <<"ccedil">> ELSE <<"Ccedil">>)
    ELSE match

\* str.replace(/\\c(?:\{([a-zA-Z])\}|\s+([a-zA-Z]))/g, callback)
RECURSIVE DecodeCedilla(_)
DecodeCedilla(s) ==
    IF s = <<>> THEN <<>>
    ELSE IF Len(s) >= 5 /\ s[1] = "\\" /\ s[2] = "c" /\ s[3] = "{"
            /\ IsLetter(s[4]) /\ s[5] = "}"
         THEN CedillaCallback(SubSeq(s, 1, 5), s[4])
                 \o DecodeCedilla(Drop(s, 5))
    ELSE LET n == SpaceRun(Drop(s, 2)) IN
         IF Len(s) >= n + 3 /\ s[1] = "\\" /\ s[2] = "c" /\ n >= 1
            /\ IsLetter(s[n + 3])
         THEN CedillaCallback(SubSeq(s, 1, n + 3), s[n + 3])
                 \o DecodeCedilla(Drop(s, n + 3))
         ELSE <<Head(s)>> \o DecodeCedilla(Tail(s))

\* str.replace(/\\_/g, '_'), str.replace(/\\&/g, '&'), str.replace(/\\ /g, ' ')
RECURSIVE Unescape(_, _)
Unescape(s, ch) ==
    IF s = <<>> THEN <<>>
    ELSE IF Len(s) >= 2 /\ s[1] = "\\" /\ s[2] = ch
         THEN <<ch>> \o Unescape(Drop(s, 2), ch)
         ELSE <<Head(s)>> \o Unescape(Tail(s), ch)

\* str.replace(/\s+/g, ' ')
RECURSIVE CollapseSpaces(_)
CollapseSpaces(s) ==
    IF s = <<>> THEN <<>>
    ELSE IF IsSpace(Head(s))
         THEN <<" ">> \o CollapseSpaces(Drop(s, SpaceRun(s)))
         ELSE <<Head(s)>> \o CollapseSpaces(Tail(s))

\* one pass of the while loop's body
DecodePass(s) ==
    CollapseSpaces(
      Unescape(Unescape(Unescape(
        DecodeCedilla(DecodeAccents(StripBraces(s))), "_"), "&"), " "))

\* the bound of the while loop: loopCount < 10
MAX_LOOP == 10

\* while (str !== previous && loopCount < 10) { previous = str; ... }
RECURSIVE DecodeLoop(_, _, _)
DecodeLoop(str, previous, loopCount) ==
    IF str # previous /\ loopCount < MAX_LOOP
    THEN DecodeLoop(DecodePass(str), str, loopCount + 1)
    ELSE str

\* previous starts as "", so the loop is not entered for str = ""
decodeLatex(v) ==
    IF v = <<>> THEN <<>> ELSE trim(DecodeLoop(v, <<>>, 0))

\* clean(val)
clean(v) == IF v = <<>> THEN <<>> ELSE trim(decodeLatex(v))

-----------------------------------------------------------------------------
(* parseInt and String on numbers                                          *)

Digits == <<"0","1","2","3","4","5","6","7","8","9">>
HexLower == <<"a","b","c","d","e","f">>
HexUpper == <<"A","B","C","D","E","F">>

\* the value of a digit in a radix, or -1
DigitVal(ch, radix) ==
    IF ch \in Range(Digits)
    THEN (CHOOSE i \in DOMAIN Digits : Digits[i] = ch) - 1
    ELSE IF radix = 16 /\ ch \in Range(HexLower)
    THEN (CHOOSE i \in DOMAIN HexLower : HexLower[i] = ch) + 9
    ELSE IF radix = 16 /\ ch \in Range(HexUpper)
    THEN (CHOOSE i \in DOMAIN HexUpper : HexUpper[i] = ch) + 9
    ELSE -1

NaN == [nan |-> TRUE, val |-> 0]

\* the digits at the head of s, read in a radix; NaN when there is none
RECURSIVE ParseDigits(_, _, _, _)
ParseDigits(s, radix, acc, seen) ==
    IF s # <<>> /\ DigitVal(Head(s), radix) >= 0
    THEN ParseDigits(Tail(s), radix, acc * radix + DigitVal(Head(s), radix), TRUE)
    ELSE IF seen THEN [nan |-> FALSE, val |-> acc] ELSE NaN

ParseUnsigned(s) ==
    IF startsWith(s, <<"0", "x">>) \/ startsWith(s, <<"0", "X">>)
    THEN ParseDigits(Drop(s, 2), 16, 0, FALSE)
    ELSE ParseDigits(s, 10, 0, FALSE)

\* parseInt(string): leading whitespace skipped, an optional sign, then the
\* longest run of digits; what follows the digits is ignored
parseInt(str) ==
    LET s == TrimStart(str) IN
    IF s # <<>> /\ Head(s) = "-"
    THEN LET r == ParseUnsigned(Tail(s)) IN
         IF r.nan THEN NaN ELSE [nan |-> FALSE, val |-> 0 - r.val]
    ELSE IF s # <<>> /\ Head(s) = "+" THEN ParseUnsigned(Tail(s))
    ELSE ParseUnsigned(s)

RECURSIVE NatToString(_)
NatToString(n) ==
    IF n < 10 THEN <<Digits[n + 1]>>
    ELSE NatToString(n \div 10) \o <<Digits[(n % 10) + 1]>>

\* String(number), for an integer
String(n) == IF n < 0 THEN <<"-">> \o NatToString(0 - n) ELSE NatToString(n)

-----------------------------------------------------------------------------
(* parseBibTex                                                             *)
(*                                                                         *)
(* A document is what bibtexParse.toJSON makes of it: kind "array" with    *)
(* the parsed entries, kind "object" (a result that is no array) or kind   *)
(* "throws" (the library raises on it). An entry is                        *)
(* [entryType, citationKey, entryTags]; entryTags is a function from the   *)
(* names of the tags the entry has to their values.                        *)

MIN_YEAR == 2014

\* tags.name is truthy: the tag is there and is not the empty string
Truthy(tags, name) == name \in DOMAIN tags /\ tags[name] # <<>>

\* tags.name || ""
TagOr(tags, name) == IF Truthy(tags, name) THEN tags[name] ELSE <<>>

\* String(undefined), which parseInt reads when the year tag is missing
Undefined == <<"u","n","d","e","f","i","n","e","d">>

\* const venueRaw = tags.journal || tags.booktitle || tags.school || ""
VenueRaw(tags) ==
    IF Truthy(tags, "journal") THEN tags["journal"]
    ELSE IF Truthy(tags, "booktitle") THEN tags["booktitle"]
    ELSE IF Truthy(tags, "school") THEN tags["school"]
    ELSE <<>>

\* the literals of the two includes() tests
CORR == <<"c", "o", "r", "r">>
CORR_SLASH == <<"c", "o", "r", "r", "/">>
ARXIV == <<"a", "r", "x", "i", "v">>

\* a mutation of IsCoRR: the toLowerCase() calls forgotten
IsCoRRCaseSensitive(venueRaw, key) ==
    includes(venueRaw, CORR) \/ includes(key, CORR_SLASH)

\* venueRaw.toLowerCase().includes('corr') || key.toLowerCase().includes('corr/')
IsCoRR(venueRaw, key) ==
    includes(toLowerCase(venueRaw), CORR) \/ includes(toLowerCase(key), CORR_SLASH)

\* tags.eprinttype && tags.eprinttype.toLowerCase() === 'arxiv'
IsArxiv(tags) ==
    Truthy(tags, "eprinttype") /\ toLowerCase(tags["eprinttype"]) = ARXIV

\* const year = parseInt(tags.year)
YearOf(tags) ==
    parseInt(IF "year" \in DOMAIN tags THEN tags["year"] ELSE Undefined)

\* a mutation of BadYear: <= for <
BadYearOffByOne(year) == year.nan \/ year.val <= MIN_YEAR

\* isNaN(year) || year < MIN_YEAR
BadYear(year) == year.nan \/ year.val < MIN_YEAR

\* let doi = tags.doi || ""; if (doi && !doi.startsWith('http')) doi = clean(doi)
DoiOf(tags) ==
    LET doi == TagOr(tags, "doi") IN
    IF doi # <<>> /\ ~startsWith(doi, <<"h", "t", "t", "p">>)
    THEN clean(doi) ELSE doi

\* the object pushed for one entry. src is the position of the entry in the
\* document: a history field the code does not have. authors, url and bibtex,
\* which no condition of the code reads, are left out.
MakePublication(entry, i) ==
    LET tags == entry.entryTags IN
    [ type  |-> entry.entryType,
      key   |-> entry.citationKey,
      title |-> clean(TagOr(tags, "title")),
      year  |-> String(YearOf(tags).val),
      venue |-> clean(VenueRaw(tags)),
      doi   |-> DoiOf(tags),
      src   |-> i ]

\* the three continue statements of the loop
Skipped(entry) ==
    \/ IsCoRR(VenueRaw(entry.entryTags), entry.citationKey)
    \/ IsArxiv(entry.entryTags)
    \/ BadYear(YearOf(entry.entryTags))

\* for (const entry of parsed) { ... entries.push({...}) }, from entry i on
RECURSIVE ParseLoop(_, _)
ParseLoop(parsed, i) ==
    IF i > Len(parsed) THEN <<>>
    ELSE IF Skipped(parsed[i]) THEN ParseLoop(parsed, i + 1)
    ELSE <<MakePublication(parsed[i], i)>> \o ParseLoop(parsed, i + 1)

\* try { parsed = toJSON(text); if (!Array.isArray(parsed)) return [];
\*       ...; return entries } catch (e) { return [] }
parseBibTex(doc) ==
    IF doc.kind = "throws" THEN <<>>
    ELSE IF doc.kind # "array" THEN <<>>
    ELSE ParseLoop(doc.parsed, 1)

-----------------------------------------------------------------------------
(* The entries the documents of the model are made of                      *)

sTRO     == <<"T", "R", "O">>
sICRA    == <<"{", "I", "C", "R", "A", "}">>
sCoRR    == <<"C", "o", "R", "R">>
sCorr    == <<"c", "o", "r", "r">>
sInCorr  == <<"A", "C", "O", "R", "R", "B">>
sBraced  == <<"C", "o", "{", "r", "r", "}">>
sThesis  == <<"F", "I", "U">>
sArXiv   == <<"a", "r", "X", "i", "v">>
sOther   == <<"d", "o", "i">>
sTitle   == <<"{", "A", "}", " ", " ", "b">>
sDoi     == <<"1", "0", ".", "1", "\\", "_", "x">>
sDoiUrl  == <<"h", "t", "t", "p", ":", "\\", "_">>

kA       == <<"c", "/", "a">>
kB       == <<"c", "/", "b">>
kCorr    == <<"j", "/", "c", "o", "r", "r", "/", "a">>
kCoRR    == <<"j", "/", "C", "o", "R", "R", "/", "b">>
kCorrea  == <<"c", "/", "C", "o", "r", "r", "e", "a">>

y2013    == <<"2", "0", "1", "3">>
y2014    == <<"2", "0", "1", "4">>
y2018    == <<"2", "0", "1", "8">>
y2022    == <<"2", "0", "2", "2">>
yNone    == <<"n", ".", "d", ".">>
y2015a   == <<"2", "0", "1", "5", "a">>

Article(key, tags) ==
    [entryType |-> "article", citationKey |-> key, entryTags |-> tags]

EntrySet ==
    { Article(kA, [journal |-> sTRO, year |-> y2014]),
      Article(kB, [booktitle |-> sICRA, year |-> y2022, title |-> sTitle,
                   doi |-> sDoi]),
      Article(kA, [journal |-> sTRO, year |-> y2013]),
      Article(kB, [journal |-> sTRO]),
      Article(kA, [journal |-> sTRO, year |-> yNone]),
      Article(kA, [journal |-> sTRO, year |-> y2015a]),
      Article(kA, [journal |-> sCoRR, year |-> y2022]),
      Article(kB, [journal |-> sCorr, year |-> y2013]),
      Article(kA, [booktitle |-> sInCorr, year |-> y2018]),
      Article(kA, [journal |-> sTRO, booktitle |-> sCoRR, year |-> y2018]),
      Article(kB, [journal |-> <<>>, school |-> sCoRR, year |-> y2018]),
      Article(kB, [journal |-> sBraced, year |-> y2018]),
      Article(kCorr, [journal |-> sTRO, year |-> y2022]),
      Article(kCoRR, [school |-> sThesis, year |-> y2014]),
      Article(kCorrea, [journal |-> sTRO, year |-> y2018, doi |-> sDoiUrl]),
      Article(kA, [journal |-> sTRO, year |-> y2022, eprinttype |-> sArXiv]),
      Article(kB, [journal |-> sTRO, year |-> y2022, eprinttype |-> sOther]),
      Article(kB, [year |-> y2018]) }

\* the most entries in a document
MaxEntries == 2

Documents ==
    { [kind |-> "throws", parsed |-> <<>>], [kind |-> "object", parsed |-> <<>>] }
    \cup { [kind |-> "array", parsed |-> p] :
             p \in UNION { [1..n -> EntrySet] : n \in 0..MaxEntries } }

-----------------------------------------------------------------------------
(* parseBibTex applied to every document                                   *)

ParseIdle == text = [kind |-> "object", parsed |-> <<>>] /\ entries = <<>>
             /\ pstage = "off"

ParseInit ==
    /\ text \in Documents
    /\ entries = <<>>
    /\ pstage = "input"

Parse ==
    /\ pstage = "input"
    /\ entries' = parseBibTex(text)
    /\ pstage' = "parsed"
    /\ UNCHANGED <<text, fetchVars, decodeVars>>

-----------------------------------------------------------------------------
(* decodeLatex applied to every short string over a small alphabet         *)

\* the longest argument of decodeLatex
MaxLen == 5

DecodeAlphabet == {"\\", "c", "C", "e", "{", "}", " ", "'"}

DecodeInputs == UNION { [1..n -> DecodeAlphabet] : n \in 0..MaxLen }

DecodeIdle == val = <<>> /\ decoded = <<>> /\ dstage = "off"

DecodeInit ==
    /\ val \in DecodeInputs
    /\ decoded = <<>>
    /\ dstage = "input"

Decode ==
    /\ dstage = "input"
    /\ decoded' = decodeLatex(val)
    /\ dstage' = "decoded"
    /\ UNCHANGED <<val, fetchVars, parseVars>>

-----------------------------------------------------------------------------
(* fetchPublications                                                       *)

\* const CACHE_TTL = 5 * 60 * 1000
CACHE_TTL == 5 * 60 * 1000

\* let cache = null
Null == [set |-> FALSE, data |-> <<>>, timestamp |-> 0]

\* a mutation of Fresh: <= for <
FreshInclusive(c, t) == c.set /\ t - c.timestamp <= CACHE_TTL

\* cache && now - cache.timestamp < CACHE_TTL
Fresh(c, t) == c.set /\ t - c.timestamp < CACHE_TTL

\* a mutation of fetch: a request already in flight is shared
fetchShared(pending, i) == IF pending # {} THEN pending ELSE pending \cup {i}

\* fetch(DBLP_BIB_URL): the invocation's own request joins those in flight
fetch(pending, i) == pending \cup {i}

\* a mutation of Compare: ascending
CompareAscending(a, b) == parseInt(a.year).val - parseInt(b.year).val

\* (a, b) => parseInt(b.year) - parseInt(a.year)
Compare(a, b) == parseInt(b.year).val - parseInt(a.year).val

\* x put after every element that does not compare greater than it
RECURSIVE InsertSorted(_, _)
InsertSorted(s, x) ==
    IF s = <<>> THEN <<x>>
    ELSE IF Compare(Head(s), x) > 0 THEN <<x>> \o s
    ELSE <<Head(s)>> \o InsertSorted(Tail(s), x)

\* Array.prototype.sort with the comparator: a stable sort
RECURSIVE sort(_)
sort(s) ==
    IF s = <<>> THEN <<>>
    ELSE InsertSorted(sort(SubSeq(s, 1, Len(s) - 1)), s[Len(s)])

\* a mutation of Store: an older slot is kept against a result stamped earlier
StoreIfNewer(old, sortedEntries, t) ==
    IF old.set /\ old.timestamp > t THEN old
    ELSE [set |-> TRUE, data |-> sortedEntries, timestamp |-> t]

\* cache = { data: sortedEntries, timestamp: now }, whatever the slot held
Store(old, sortedEntries, t) ==
    [set |-> TRUE, data |-> sortedEntries, timestamp |-> t]

\* How an invocation completed: the value returned, the return statement
\* that returned it ("cache" line 175, "fresh" line 194, "stale" line 201,
\* "empty" line 203), the error the catch block caught, if any, and the
\* timestamp the invocation stored in the cache, if it stored one (-1 if not).
NoReturn ==
    [kind |-> "none", value |-> <<>>, via |-> "none", error |-> "none",
     stamp |-> -1]
Returns(v, via, e, t) ==
    [kind |-> "return", value |-> v, via |-> via, error |-> e, stamp |-> t]
Throws(e) ==
    [kind |-> "throw", value |-> <<>>, via |-> "none", error |-> e, stamp |-> -1]

\* a mutation of Catch: the error goes on to the caller
CatchRethrow(c, e) == Throws(e)

\* a mutation of Catch: the stale cache is not served
CatchEmpty(c, e) == Returns(<<>>, "empty", e, -1)

\* catch (e) { if (cache) return cache.data; return [] }
Catch(c, e) ==
    IF c.set THEN Returns(c.data, "stale", e, -1)
    ELSE Returns(<<>>, "empty", e, -1)

\* the invocations that may overlap
NumCalls == 2
Calls == 1..NumCalls

\* the clock runs to MaxPeriods times the time-to-live
MaxPeriods == 1

\* the step of the clock: half the time-to-live, so that a cache entry is seen
\* at the ages 0, CACHE_TTL / 2 (fresh), CACHE_TTL and more (expired)
TickStep == CACHE_TTL \div 2

NoBody == [kind |-> "none", parsed |-> <<>>]

\* the documents response.text() may resolve with
docThrows == [kind |-> "throws", parsed |-> <<>>]
docA ==
    [kind |-> "array", parsed |->
       << Article(kA, [journal |-> sTRO, year |-> y2018]),
          Article(kB, [booktitle |-> sICRA, year |-> y2022, title |-> sTitle,
                       doi |-> sDoi]),
          Article(kA, [journal |-> sCoRR, year |-> y2022]),
          Article(kCorrea, [journal |-> sTRO, year |-> y2018, doi |-> sDoiUrl]) >>]
docB ==
    [kind |-> "array", parsed |->
       << Article(kA, [journal |-> sTRO, year |-> y2014]),
          Article(kB, [journal |-> sTRO, year |-> y2022, eprinttype |-> sOther]) >>]

Bodies == { docThrows, docA, docB }

\* line 184 for each body: parseBibTex(text)
ParsedEntries == [d \in Bodies |-> parseBibTex(d)]

\* line 187 for each body: entries.sort(...)
SortedEntries == [d \in Bodies |-> sort(ParsedEntries[d])]

FetchIdle ==
    /\ clock = 0 /\ cache = Null /\ inflight = {}
    /\ pc = <<>> /\ now = <<>> /\ body = <<>> /\ ret = <<>>

FetchInit ==
    /\ clock = 0
    /\ cache = Null
    /\ inflight = {}
    /\ pc = [i \in Calls |-> "idle"]
    /\ now = [i \in Calls |-> 0]
    /\ body = [i \in Calls |-> NoBody]
    /\ ret = [i \in Calls |-> NoReturn]

\* lines 172-176: the cache is fresh and is returned
CacheHit(i) ==
    /\ pc[i] = "idle"
    /\ Fresh(cache, clock)
    /\ ret' = [ret EXCEPT ![i] = Returns(cache.data, "cache", "none", -1)]
    /\ pc' = [pc EXCEPT ![i] = "done"]
    /\ UNCHANGED <<clock, cache, inflight, now, body, parseVars, decodeVars>>

\* lines 172-179: no fresh cache, the request is issued and the call suspends
CacheMiss(i) ==
    /\ pc[i] = "idle"
    /\ ~Fresh(cache, clock)
    /\ now' = [now EXCEPT ![i] = clock]
    /\ inflight' = fetch(inflight, i)
    /\ pc' = [pc EXCEPT ![i] = "awaiting"]
    /\ UNCHANGED <<clock, cache, body, ret, parseVars, decodeVars>>

\* line 179 rejects: the catch block
FetchRejected(i) ==
    /\ pc[i] = "awaiting"
    /\ i \in inflight
    /\ inflight' = inflight \ {i}
    /\ ret' = [ret EXCEPT ![i] = Catch(cache, "fetch rejected")]
    /\ pc' = [pc EXCEPT ![i] = "done"]
    /\ now' = [now EXCEPT ![i] = 0]
    /\ UNCHANGED <<clock, cache, body, parseVars, decodeVars>>

\* lines 179-182: the response is not ok, the throw and the catch block
FetchNotOk(i) ==
    /\ pc[i] = "awaiting"
    /\ i \in inflight
    /\ inflight' = inflight \ {i}
    /\ ret' = [ret EXCEPT ![i] = Catch(cache, "response not ok")]
    /\ pc' = [pc EXCEPT ![i] = "done"]
    /\ now' = [now EXCEPT ![i] = 0]
    /\ UNCHANGED <<clock, cache, body, parseVars, decodeVars>>

\* lines 179-183: the response is ok, the call suspends on response.text()
FetchOk(i) ==
    /\ pc[i] = "awaiting"
    /\ i \in inflight
    /\ inflight' = inflight \ {i}
    /\ pc' = [pc EXCEPT ![i] = "text"]
    /\ UNCHANGED <<clock, cache, now, body, ret, parseVars, decodeVars>>

\* line 183 rejects: the catch block
TextRejected(i) ==
    /\ pc[i] = "text"
    /\ ret' = [ret EXCEPT ![i] = Catch(cache, "text rejected")]
    /\ pc' = [pc EXCEPT ![i] = "done"]
    /\ now' = [now EXCEPT ![i] = 0]
    /\ UNCHANGED <<clock, cache, inflight, body, parseVars, decodeVars>>

\* lines 183-194: the body is read, parsed, sorted, stored and returned
TextResolved(i) ==
    /\ pc[i] = "text"
    /\ \E d \in Bodies :
         LET sortedEntries == SortedEntries[d] IN
         /\ body' = [body EXCEPT ![i] = d]
         /\ cache' = Store(cache, sortedEntries, now[i])
         /\ ret' = [ret EXCEPT ![i] =
                       Returns(sortedEntries, "fresh", "none", now[i])]
    /\ pc' = [pc EXCEPT ![i] = "done"]
    /\ now' = [now EXCEPT ![i] = 0]
    /\ UNCHANGED <<clock, inflight, parseVars, decodeVars>>

\* the caller takes the result; the invocation may be made again
Return(i) ==
    /\ pc[i] = "done"
    /\ pc' = [pc EXCEPT ![i] = "idle"]
    /\ body' = [body EXCEPT ![i] = NoBody]
    /\ ret' = [ret EXCEPT ![i] = NoReturn]
    /\ UNCHANGED <<clock, cache, inflight, now, parseVars, decodeVars>>

\* time passes
Tick ==
    /\ clock + TickStep <= MaxPeriods * CACHE_TTL
    /\ clock' = clock + TickStep
    /\ UNCHANGED <<cache, inflight, pc, now, body, ret, parseVars, decodeVars>>

-----------------------------------------------------------------------------
(* Specifications                                                          *)

Init == FetchInit /\ ParseIdle /\ DecodeIdle

Next ==
    \/ \E i \in Calls : CacheHit(i)
    \/ \E i \in Calls : CacheMiss(i)
    \/ \E i \in Calls : FetchRejected(i)
    \/ \E i \in Calls : FetchNotOk(i)
    \/ \E i \in Calls : FetchOk(i)
    \/ \E i \in Calls : TextRejected(i)
    \/ \E i \in Calls : TextResolved(i)
    \/ \E i \in Calls : Return(i)
    \/ Tick

Spec == Init /\ [][Next]_vars

InitParse == ParseInit /\ FetchIdle /\ DecodeIdle

NextParse == Parse

SpecParse == InitParse /\ [][NextParse]_vars

InitDecode == DecodeInit /\ FetchIdle /\ ParseIdle

NextDecode == Decode

SpecDecode == InitDecode /\ [][NextDecode]_vars

-----------------------------------------------------------------------------
(* Properties of fetchPublications, checked under Spec                     *)

Awaiting == { i \in Calls : pc[i] = "awaiting" }

\* an entry younger than five minutes, in milliseconds
Younger(c, t) == c.set /\ t - c.timestamp < 300000

\* the year of a publication as a number
YearNum(p) == parseInt(p.year).val

\* non-increasing by year, entries of equal year in parse order
SortedStable(s) ==
    \A j, k \in DOMAIN s :
        j < k => \/ YearNum(s[j]) > YearNum(s[k])
                 \/ YearNum(s[j]) = YearNum(s[k]) /\ s[j].src < s[k].src

\* s holds exactly the publications of p, each once
SameEntries(s, p) == Len(s) = Len(p) /\ Range(s) = Range(p)

\* C1: every invocation that has completed has returned a sequence by one of
\* the four return statements; none has raised an error to its caller,
\* whatever the cache held and however the network call ended.
C1_Total ==
    \A i \in Calls :
        /\ ret[i].kind \in {"none", "return"}
        /\ pc[i] = "done" =>
              /\ ret[i].kind = "return"
              /\ ret[i].via \in {"cache", "fresh", "stale", "empty"}
              /\ DOMAIN ret[i].value = 1..Len(ret[i].value)

\* C1 witness: two invocations completed after failures, one of the request
\* and one of the body read, with nothing cached.
C1_Witness ==
    \E i, j \in Calls :
        /\ pc[i] = "done" /\ ret[i].error = "fetch rejected"
        /\ pc[j] = "done" /\ ret[j].error = "text rejected"
        /\ ret[i].kind = "return" /\ ret[j].kind = "return"
        /\ ~cache.set

\* C2: an invocation that starts while the cache holds an entry younger than
\* the time-to-live completes at once with the cached list, issues no request
\* and leaves the cache alone; one that starts with the cache empty or of age
\* at least the time-to-live issues a request and suspends.
C2_FreshCacheServed ==
    [][ \A i \in Calls :
          (pc[i] = "idle" /\ pc'[i] # "idle") =>
             IF Younger(cache, clock)
             THEN /\ pc'[i] = "done"
                  /\ ret'[i].kind = "return" /\ ret'[i].value = cache.data
                  /\ cache' = cache
                  /\ inflight' = inflight
             ELSE /\ pc'[i] = "awaiting"
                  /\ i \notin inflight /\ i \in inflight' ]_vars

\* C2 witness: one invocation was served a cached entry of age half the
\* time-to-live while another, started on the expired entry, is suspended on
\* its request.
C2_Witness ==
    \E i, j \in Calls :
        /\ pc[i] = "done" /\ ret[i].via = "cache" /\ ret[i].value # <<>>
        /\ pc[j] = "awaiting" /\ j \in inflight
        /\ cache.set /\ cache.timestamp = 0 /\ now[j] = CACHE_TTL

\* C3: an invocation whose request rejects or whose response is not ok
\* returns the list the cache holds at that time if the cache holds one,
\* whatever its age, and the empty sequence otherwise; the step leaves the
\* cache alone.
C3_NetworkFailureFallback ==
    [][ \A i \in Calls :
          (pc[i] = "awaiting" /\ pc'[i] = "done") =>
             /\ ret'[i].kind = "return"
             /\ ret'[i].value = (IF cache.set THEN cache.data ELSE <<>>)
             /\ cache' = cache ]_vars

\* C3 witness: a request failed while the cache held an expired, non-empty
\* list, and that list was returned.
C3_Witness ==
    \E i \in Calls :
        /\ pc[i] = "done" /\ ret[i].error \in {"fetch rejected", "response not ok"}
        /\ ret[i].via = "stale" /\ ret[i].value # <<>>
        /\ cache.set /\ ret[i].value = cache.data
        /\ clock - cache.timestamp >= CACHE_TTL

\* C4 as stated: when the body read succeeds and the parser raises on the
\* document, the invocation returns the cached list and leaves the cache
\* alone if the cache holds an entry, and returns the empty sequence
\* otherwise.
C4_ParseFailureFallback ==
    [][ \A i \in Calls :
          (pc[i] = "text" /\ pc'[i] = "done" /\ body'[i].kind = "throws") =>
             IF cache.set
             THEN ret'[i].value = cache.data /\ cache' = cache
             ELSE ret'[i].value = <<>> ]_vars

\* C5: the cache is empty or holds the publications parsed from one single
\* response body, each once, non-increasing by year with equal years in
\* parse order; and the list a successful refresh returns is the list it
\* has just stored.
C5_OneSortedGeneration ==
    /\ [](cache.set =>
            /\ SortedStable(cache.data)
            /\ \E d \in Bodies : SameEntries(cache.data, ParsedEntries[d]))
    /\ [][ \A i \in Calls :
             (pc[i] = "text" /\ pc'[i] = "done" /\ ret'[i].via = "fresh") =>
                 /\ cache'.set
                 /\ ret'[i].value = cache'.data ]_vars

\* C5 witness: the cache was refreshed with a list of three publications, two
\* of them of the same year, after it had held another list.
C5_Witness ==
    /\ cache.set /\ cache.timestamp > 0 /\ Len(cache.data) = 3
    /\ \E j, k \in DOMAIN cache.data :
          j < k /\ YearNum(cache.data[j]) = YearNum(cache.data[k])
    /\ \E j, k \in DOMAIN cache.data :
          YearNum(cache.data[j]) > YearNum(cache.data[k])
    /\ \E i \in Calls :
          /\ ret[i].via = "stale" /\ ret[i].value # cache.data
          /\ ret[i].value # <<>>

\* C8: every invocation suspended on its request owns a request of its own
\* among those in flight: the requests in flight are as many as the suspended
\* invocations, and none is shared.
C8_NoDeduplication ==
    /\ Awaiting \subseteq inflight
    /\ Cardinality(inflight) = Cardinality(Awaiting)

\* C8 witness: two invocations started on an empty cache are both suspended,
\* and two requests are in flight.
C8_Witness ==
    /\ ~cache.set
    /\ \E i, j \in Calls :
          i # j /\ {i, j} \subseteq inflight /\ pc[i] = "awaiting" /\ pc[j] = "awaiting"

\* C10 as stated: the cache timestamp never decreases.
C10_TimestampMonotonic ==
    [][ (cache.set /\ cache'.set) => cache'.timestamp >= cache.timestamp ]_vars

\* C10 amended: a successful invocation replaces the cache, whatever it
\* holds, by its own sorted list stamped with the time it read at its start;
\* nothing else changes the cache, and the timestamp is never ahead of the
\* clock.
C10_LastResponseWins ==
    /\ [](cache.set => cache.timestamp <= clock)
    /\ [][ /\ \A i \in Calls :
                (pc[i] = "text" /\ pc'[i] = "done" /\ ret'[i].via = "fresh") =>
                    cache' = [set |-> TRUE, data |-> ret'[i].value,
                              timestamp |-> now[i]]
           /\ cache' # cache =>
                \E i \in Calls : pc[i] = "text" /\ ret'[i].via = "fresh" ]_vars

\* C10 witness: of two overlapping invocations the one that started earlier
\* received its response last, and the cache holds its list and its start
\* time, older than the start of the other.
C10_Witness ==
    \E i, j \in Calls :
        /\ pc[i] = "done" /\ ret[i].via = "fresh"
        /\ pc[j] = "done" /\ ret[j].via = "fresh"
        /\ ret[i].stamp < ret[j].stamp
        /\ ret[i].value # ret[j].value
        /\ cache = [set |-> TRUE, data |-> ret[i].value,
                    timestamp |-> ret[i].stamp]

-----------------------------------------------------------------------------
(* Properties of parseBibTex, checked under SpecParse                      *)

\* the source entry of a publication of the output
SourceOf(p) == text.parsed[p.src]

\* the venue of an entry as the specification reads it: the first of journal,
\* booktitle and school that is there with a value
ClaimVenue(e) ==
    LET given == { n \in {"journal", "booktitle", "school"} :
                      n \in DOMAIN e.entryTags /\ Len(e.entryTags[n]) > 0 } IN
    IF "journal" \in given THEN e.entryTags["journal"]
    ELSE IF "booktitle" \in given THEN e.entryTags["booktitle"]
    ELSE IF "school" \in given THEN e.entryTags["school"]
    ELSE <<>>

\* s holds the marker, in any case of its letters
HasMarker(s, marker) == includes(toLowerCase(s), marker)

\* s is a run of decimal digits
AllDigits(s) == s # <<>> /\ \A k \in DOMAIN s : s[k] \in Range(Digits)

\* the year tag of an entry is an integer of at least 2014
ClaimYearOk(e) ==
    /\ "year" \in DOMAIN e.entryTags
    /\ AllDigits(e.entryTags["year"])
    /\ parseInt(e.entryTags["year"]).val >= 2014

\* the output is in document order, and each publication carries the key of
\* its source entry
InDocumentOrder ==
    /\ \A j, k \in DOMAIN entries : j < k => entries[j].src < entries[k].src
    /\ \A j \in DOMAIN entries : entries[j].key = SourceOf(entries[j]).citationKey

\* C6 as stated: every publication of the output has an integer year of at
\* least 2014, a source venue without the marker and a key without the
\* marker, the same marker for both.
C6_KeptEntriesClean ==
    pstage = "parsed" =>
        \A j \in DOMAIN entries :
            /\ AllDigits(entries[j].year) /\ YearNum(entries[j]) >= 2014
            /\ ~HasMarker(ClaimVenue(SourceOf(entries[j])), CORR)
            /\ ~HasMarker(entries[j].key, CORR)

\* C6 amended: every publication of the output has an integer year of at
\* least 2014, a source venue without the marker corr and a key without the
\* marker followed by a slash, corr/; a key may hold corr elsewhere.
C6_KeptEntriesCleanSlash ==
    pstage = "parsed" =>
        \A j \in DOMAIN entries :
            /\ AllDigits(entries[j].year) /\ YearNum(entries[j]) >= 2014
            /\ ~HasMarker(ClaimVenue(SourceOf(entries[j])), CORR)
            /\ ~HasMarker(entries[j].key, CORR_SLASH)

\* C6 witness: of a document of two entries one was dropped, and the one kept
\* has a key that holds corr without a slash after it.
C6_Witness ==
    /\ pstage = "parsed" /\ text.kind = "array"
    /\ Len(text.parsed) = 2 /\ Len(entries) = 1
    /\ HasMarker(entries[1].key, CORR)
    /\ HasMarker(ClaimVenue(text.parsed[3 - entries[1].src]), CORR)

\* an entry passes the two exclusion rules of the specification
ClaimPasses(e) ==
    /\ ~HasMarker(ClaimVenue(e), CORR)
    /\ ~HasMarker(e.citationKey, CORR)
    /\ ClaimYearOk(e)

\* the eprinttype tag of an entry is arxiv, in any case of its letters
ClaimArxiv(e) ==
    /\ "eprinttype" \in DOMAIN e.entryTags
    /\ toLowerCase(e.entryTags["eprinttype"]) = ARXIV

-----------------------------------------------------------------------------
(* Properties of decodeLatex, checked under SpecDecode                     *)

\* val is a cedilla escape on the letter ch and nothing else: the braced
\* form, or the spaced form with one or more blanks
CedillaBraced(v, ch) == v = <<"\\", "c", "{", ch, "}">>
CedillaSpaced(v, ch) ==
    /\ Len(v) >= 4 /\ v[1] = "\\" /\ v[2] = "c" /\ v[Len(v)] = ch
    /\ \A k \in 3..(Len(v) - 1) : IsSpace(v[k])

\* C9 as stated: a cedilla escape on c or C, braced or spaced, decodes to
\* the letter with cedilla; a cedilla escape on another letter comes back
\* as it was (its blanks collapsed to one).
C9_Cedilla ==
    dstage = "decoded" =>
        \A ch \in {"c", "C", "e"} :
            (CedillaBraced(val, ch) \/ CedillaSpaced(val, ch)) =>
                decoded = CASE ch = "c" -> <<"ccedil">>
                            [] ch = "C" -> <<"Ccedil">>
                            [] OTHER    -> CollapseSpaces(val)

=============================================================================
